---- MODULE Spec2Model ----
(***************************************************************************)
(* GT911 touch controller driver (driver/esp32/gt911.py), as a state       *)
(* machine: the session's scratch buffer, the locals of each running call, *)
(* and the I2C transactions each call has issued.                          *)
(*                                                                         *)
(* Python indexes from 0, TLA+ sequences from 1: data_buf[k] of the source *)
(* is data_buf[k+1] here, and config[184] is config[185].  Bytearray       *)
(* stores keep the low 8 bits (MicroPython semantics).                     *)
(***************************************************************************)
EXTENDS Integers, Sequences, FiniteSets, TLC

\* ---------------------------------------------------------------- constants
GT911_I2C_SLAVE_ADDR == 93
GT911_REG_COMMAND == 32832
GT911_REG_CONFIG_DATA == 32839
GT911_REG_ID == 33088
GT911_REG_FW_VER == 33092
GT911_READ_COORD_ADDR == 33102
GT911_POINT1_X_ADDR == 33104
GT911_CMD_READ == 0
GT911_CMD_SCREEN_OFF == 5

\* ------------------------------------------------------------------- bounds
\* Largest point count (status bits 3:0) the modelled controller reports.
MaxPoints == 6
\* Caller threads that may hold a reference to the session.
MaxThreads == 2

Callers == 1..MaxThreads

\* Panel sizes (width, height) the touch base class may supply.
PanelSizes == { <<480, 320>>, <<4096, 600>>, <<65535, 0>> }

\* Bits 6:4 of the status bytes the controller reports with bit 7 set.
ReadyHighBits == { 0, 7 }

\* Status bytes the controller may return: every byte with bit 7 clear, and
\* with bit 7 set the counts 0..MaxPoints.
StatusBytes ==
    (0..127) \cup { 128 + 16 * h + c : h \in ReadyHighBits, c \in 0..MaxPoints }

\* 6-byte point blocks the controller may return (x lo, x hi, y lo, y hi, id, rsvd).
PointBlocks ==
    { <<100, 0, 100, 0, 0, 0>>, <<102, 0, 104, 0, 1, 0>>, <<52, 1, 120, 2, 0, 0>> }

\* 4-byte product id reads: "911\0", and a floating bus (not valid UTF-8).
IdBlocks == { <<57, 49, 49, 0>>, <<255, 255, 255, 255>> }

\* 2-byte firmware version reads.
FwBlocks == { <<96, 16>> }

\* Command codes a caller may pass to set_command_register.
Commands == GT911_CMD_READ..GT911_CMD_SCREEN_OFF

\* ------------------------------------------------------------ pure helpers
\* (addr & 0xFF00) >> 8 and addr & 0xFF
HighByte(addr) == (addr \div 256) % 256
LowByte(addr) == addr % 256

\* faulty variant: any non-zero status counts as ready
DataReady_NonZero(s) == s # 0

\* (status & 0x80) != 0
DataReady(s) == (s \div 128) % 2 = 1

\* faulty variant: the mask keeps bits 6:4 (status & 0x7F)
CoordNum_WideMask(s) == s % 128

\* status & 0x0F
CoordNum(s) == s % 16

\* faulty variant: the stride of the 6 bytes read instead of the block's 8
PointAddr_Stride6(k) == GT911_POINT1_X_ADDR + (k * 6)

\* GT911_POINT1_X_ADDR + (i * 8)
PointAddr(k) == GT911_POINT1_X_ADDR + (k * 8)

\* faulty variant: the two bytes taken high byte first
DecodeLE_BigEndian(lo, hi) == hi + lo * 256

\* lo | (hi << 8)
DecodeLE(lo, hi) == lo + hi * 256

RECURSIVE Sum(_)
Sum(s) == IF s = <<>> THEN 0 ELSE s[1] + Sum(Tail(s))

\* faulty variant: the mean rounded up
Mean_RoundedUp(c) == (Sum(c) + Len(c) - 1) \div Len(c)

\* int(sum(c) / len(c)): the quotient of two non-negative integers below
\* 2^20, which single precision division and truncation give exactly.
Mean(c) == Sum(c) \div Len(c)

\* the slice mv[:n] of the scratch buffer
Slice(buf, n) == SubSeq(buf, 1, n)

\* readfrom_into(mv[:n]): the first Len(block) bytes are replaced
Received(buf, block) ==
    [j \in 1..Len(buf) |-> IF j <= Len(block) THEN block[j] ELSE buf[j]]

\* the config bytearray literal of init(), before the checksum loop
ConfigTemplate(w, h) ==
    << HighByte(GT911_REG_CONFIG_DATA), LowByte(GT911_REG_CONFIG_DATA), 129,
       w % 256, (w \div 256) % 256,
       h % 256, (h \div 256) % 256, 1, 4,
        32, 1, 8, 40, 5, 80,   \* line 114
        60, 15, 5, 0, 0, 0, 0, 0, 0, 0, 0, 0, 0,   \* line 115
        0, 137, 42, 11, 45, 43, 15, 10, 0, 0, 1, 169, 3,   \* line 116
        45, 0, 1, 0, 0, 0, 3, 0, 0, 0, 0, 0, 33,   \* line 117
        89, 148, 197, 2, 7, 0, 0, 4, 147, 36, 0, 125, 44,   \* line 118
        0, 107, 54, 0, 93, 66, 0, 83, 80, 0, 83, 0, 0,   \* line 119
        0, 0, 0, 0, 0, 0, 0, 0, 0, 0, 0, 0, 0,   \* line 120
        0, 0, 0, 0, 0, 0, 0, 0, 0, 0, 0, 0, 0,   \* line 121
        0, 0, 0, 0, 0, 0, 0, 0, 2, 4, 6, 8, 10,   \* line 122
        12, 14, 16, 18, 20, 22, 255, 255, 255, 0, 0, 0, 0,   \* line 123
        0, 0, 0, 0, 0, 0, 0, 0, 0, 0, 0, 0, 0,   \* line 124
        2, 4, 6, 8, 10, 15, 16, 18, 22, 24, 28, 29, 30,   \* line 125
        31, 32, 33, 34, 36, 255, 255, 255, 255, 255, 255, 255, 0,   \* line 126
        0, 0, 0, 0, 0, 0, 0, 0, 0, 0, 0, 0, 0,   \* line 127
        0, 0, 214, 1   \* line 128
    >>

\* index of the byte init() overwrites with the checksum, and the number of
\* leading bytes the loop adds up
ChecksumIndex == 184

\* c[lo] + ... + c[hi], every addition keeping the low 8 bits; the range is
\* halved to keep the evaluation shallow, which addition modulo 256 allows
RECURSIVE RangeSum(_, _, _)
RangeSum(c, lo, hi) ==
    IF lo > hi THEN 0
    ELSE IF lo = hi THEN c[lo] % 256
    ELSE LET mid == (lo + hi) \div 2
         IN  (RangeSum(c, lo, mid) + RangeSum(c, mid + 1, hi)) % 256

\* the loop "config[184] += config[i]" for i in range(n), each store keeping
\* the low 8 bits
ByteSum(c, n) == RangeSum(c, 1, n)

\* ~v on a Python int
BitNot(v) == (-v) - 1

\* config[184] = 0; the loop; config[184] = (~config[184]) + 1
WithChecksum(c) ==
    LET z == [c EXCEPT ![ChecksumIndex + 1] = 0]
    IN  [z EXCEPT ![ChecksumIndex + 1] = (BitNot(ByteSum(z, ChecksumIndex)) + 1) % 256]

\* MicroPython's utf8_check, which bytearray.decode('utf-8') applies:
\* `need` continuation bytes are still expected after the bytes seen so far
RECURSIVE Utf8Need(_, _)
Utf8Need(b, need) ==
    IF b = <<>> THEN need
    ELSE IF need = -1 THEN -1
    ELSE IF need > 0
         THEN (IF b[1] >= 128 /\ b[1] < 192 THEN Utf8Need(Tail(b), need - 1) ELSE -1)
    ELSE IF b[1] >= 248 THEN -1
    ELSE IF b[1] >= 240 THEN Utf8Need(Tail(b), 3)
    ELSE IF b[1] >= 224 THEN Utf8Need(Tail(b), 2)
    ELSE IF b[1] >= 192 THEN Utf8Need(Tail(b), 1)
    ELSE IF b[1] >= 128 THEN -1
    ELSE Utf8Need(Tail(b), 0)

Utf8Valid(b) == Utf8Need(b, 0) = 0

\* one bus transaction as the transport sees it
Tx(kind, data, n, ok) ==
    [kind |-> kind, addr |-> GT911_I2C_SLAVE_ADDR, data |-> data, n |-> n, ok |-> ok]

\* outcomes of a call
Pending == [kind |-> "pending", val |-> <<>>, exc |-> ""]
\* _get_coords falls off its end or set_command_register returns: None
NoTouch == [kind |-> "none", val |-> <<>>, exc |-> ""]
Point(px, py) == [kind |-> "point", val |-> <<px, py>>, exc |-> ""]
Text(b) == [kind |-> "text", val |-> b, exc |-> ""]
Number(v) == [kind |-> "int", val |-> <<v>>, exc |-> ""]
\* faulty variant: the exception is swallowed and the call reports no touch
Raised_Swallowed(e) == [kind |-> "none", val |-> <<>>, exc |-> ""]

\* an exception leaves the call, no handler in the driver catching it:
\* OSError from the bus, UnicodeError from decode
Raised(e) == [kind |-> "error", val |-> <<>>, exc |-> e]

\* -------------------------------------------------------------------- state
VARIABLES
    width, height,   \* panel size supplied by the touch base class
    threads,         \* how many caller threads use the session
    uploaded,        \* the configuration transaction the controller last received
    data_buf,        \* self.data_buf, the 6-byte scratch buffer (self.mv views it)
    pc, op,          \* per caller: position in the code, and the method called
    bus,             \* per caller: the transactions the running call has issued
    result,          \* per caller: what the call returned or raised
    status, coord_num, i, coord_x, coord_y, x, y,   \* locals of _get_coords
    config,          \* local of init
    command          \* parameter of set_command_register

session == <<width, height, threads, uploaded>>
poll_locals == <<status, coord_num, i, coord_x, coord_y, x, y>>
init_locals == <<config, command>>
vars == <<width, height, threads, uploaded, data_buf, pc, op, bus, result,
          status, coord_num, i, coord_x, coord_y, x, y, config, command>>

Idle(v) == [p \in Callers |-> v]

Fresh ==
    /\ data_buf = <<0, 0, 0, 0, 0, 0>>
    /\ uploaded = <<>>
    /\ pc = Idle("idle") /\ op = Idle("") /\ bus = Idle(<<>>)
    /\ result = Idle(Pending)
    /\ status = Idle(0) /\ coord_num = Idle(0) /\ i = Idle(0)
    /\ coord_x = Idle(<<>>) /\ coord_y = Idle(<<>>)
    /\ x = Idle(0) /\ y = Idle(0)
    /\ config = Idle(<<>>) /\ command = Idle(0)

\* __init__: the buffer is allocated; the callers of one session are serialized
Init ==
    /\ \E wh \in PanelSizes : width = wh[1] /\ height = wh[2]
    /\ threads = 1
    /\ Fresh

\* --------------------------------------------------------- bus primitives
\* faulty variant: the status is acknowledged on the way out of a failed call
Raise_ThenClear(p, e) ==
    /\ pc' = [pc EXCEPT ![p] = "clear_fill"]
    /\ result' = [result EXCEPT ![p] = Raised(e)]

\* an exception propagates out of the call
Raise(p, e) ==
    /\ pc' = [pc EXCEPT ![p] = "done"]
    /\ result' = [result EXCEPT ![p] = Raised(e)]

\* the call returns v
Return(p, v) ==
    /\ pc' = [pc EXCEPT ![p] = "done"]
    /\ result' = [result EXCEPT ![p] = v]

Goto(p, next) ==
    /\ pc' = [pc EXCEPT ![p] = next]
    /\ result' = result

\* self.i2c.writeto(GT911_I2C_SLAVE_ADDR, bytes): completes or raises OSError
WriteTo(p, bytes, Then) ==
    \E ok \in BOOLEAN :
        /\ bus' = [bus EXCEPT ![p] = Append(@, Tx("write", bytes, Len(bytes), ok))]
        /\ IF ok THEN Then ELSE Raise(p, "OSError")

\* self.i2c.readfrom_into(GT911_I2C_SLAVE_ADDR, self.mv[:n]): fills the first
\* n bytes of the scratch buffer with what the controller sends, or raises
ReadInto(p, n, blocks, next) ==
    \/ \E b \in blocks :
        /\ bus' = [bus EXCEPT ![p] = Append(@, Tx("read", b, n, TRUE))]
        /\ data_buf' = Received(data_buf, b)
        /\ Goto(p, next)
    \/ /\ bus' = [bus EXCEPT ![p] = Append(@, Tx("read", <<>>, n, FALSE))]
       /\ data_buf' = data_buf
       /\ Raise(p, "OSError")

\* faulty variant: the address stored low byte first
WithAddress_LowFirst(buf, addr) ==
    [buf EXCEPT ![1] = LowByte(addr), ![2] = HighByte(addr)]

\* self.data_buf[0] = hi; self.data_buf[1] = lo
WithAddress(buf, addr) ==
    [buf EXCEPT ![1] = HighByte(addr), ![2] = LowByte(addr)]

\* ------------------------------------------------------------------ calls
Call(p, method, first) ==
    /\ pc[p] = "idle" /\ p <= threads
    /\ pc' = [pc EXCEPT ![p] = first]
    /\ op' = [op EXCEPT ![p] = method]
    /\ UNCHANGED <<session, data_buf, bus, result, poll_locals, config>>

call_init(p) == Call(p, "init", "init_config") /\ UNCHANGED command
call_get_coords(p) == Call(p, "_get_coords", "status_fill") /\ UNCHANGED command
call_product_id(p) == Call(p, "product_id", "product_id_fill") /\ UNCHANGED command
call_firmware(p) == Call(p, "firmware", "firmware_fill") /\ UNCHANGED command
call_set_command_register(p) ==
    \E c \in Commands :
        /\ Call(p, "set_command_register", "command_fill")
        /\ command' = [command EXCEPT ![p] = c]

\* the caller takes the outcome; the frame of the call is gone
take_result(p) ==
    /\ pc[p] = "done"
    /\ pc' = [pc EXCEPT ![p] = "idle"]
    /\ op' = [op EXCEPT ![p] = ""]
    /\ bus' = [bus EXCEPT ![p] = <<>>]
    /\ result' = [result EXCEPT ![p] = Pending]
    /\ status' = [status EXCEPT ![p] = 0]
    /\ coord_num' = [coord_num EXCEPT ![p] = 0]
    /\ i' = [i EXCEPT ![p] = 0]
    /\ coord_x' = [coord_x EXCEPT ![p] = <<>>]
    /\ coord_y' = [coord_y EXCEPT ![p] = <<>>]
    /\ x' = [x EXCEPT ![p] = 0]
    /\ y' = [y EXCEPT ![p] = 0]
    /\ config' = [config EXCEPT ![p] = <<>>]
    /\ command' = [command EXCEPT ![p] = 0]
    /\ LET sent == { k \in DOMAIN bus[p] :
                         bus[p][k].kind = "write" /\ bus[p][k].n > 3 /\ bus[p][k].ok }
       IN  uploaded' = IF sent = {} THEN uploaded
                       ELSE bus[p][CHOOSE k \in sent : TRUE].data
    /\ UNCHANGED <<width, height, threads, data_buf>>

\* ------------------------------------------------------------------- init
\* faulty variant: the version byte is taken from the scratch buffer
init_config_Stale(p) ==
    /\ pc[p] = "init_config"
    /\ config' = [config EXCEPT ![p] =
                      WithChecksum([ConfigTemplate(width, height) EXCEPT ![3] = data_buf[3]])]
    /\ Goto(p, "product_id_fill")
    /\ UNCHANGED <<session, data_buf, op, bus, poll_locals, command>>

\* faulty variant: width and height exchanged
init_config_Swapped(p) ==
    /\ pc[p] = "init_config"
    /\ config' = [config EXCEPT ![p] = WithChecksum(ConfigTemplate(height, width))]
    /\ Goto(p, "product_id_fill")
    /\ UNCHANGED <<session, data_buf, op, bus, poll_locals, command>>

\* the bytearray literal and the checksum loop
init_config(p) ==
    /\ pc[p] = "init_config"
    /\ config' = [config EXCEPT ![p] = WithChecksum(ConfigTemplate(width, height))]
    /\ Goto(p, "product_id_fill")
    /\ UNCHANGED <<session, data_buf, op, bus, poll_locals, command>>

\* faulty variant: the last byte of the configuration is not sent
init_write_config_Short(p) ==
    /\ pc[p] = "init_write_config"
    /\ WriteTo(p, SubSeq(config[p], 1, Len(config[p]) - 1), Goto(p, "init_command"))
    /\ UNCHANGED <<session, data_buf, op, poll_locals, init_locals>>

\* self.i2c.writeto(GT911_I2C_SLAVE_ADDR, config)
init_write_config(p) ==
    /\ pc[p] = "init_write_config"
    /\ WriteTo(p, config[p], Goto(p, "init_command"))
    /\ UNCHANGED <<session, data_buf, op, poll_locals, init_locals>>

\* self.set_command_register(0x00)
init_command(p) ==
    /\ pc[p] = "init_command"
    /\ command' = [command EXCEPT ![p] = GT911_CMD_READ]
    /\ Goto(p, "command_fill")
    /\ UNCHANGED <<session, data_buf, op, bus, poll_locals, config>>

\* ------------------------------------------------------------ product_id
product_id_fill(p) ==
    /\ pc[p] = "product_id_fill"
    /\ data_buf' = WithAddress(data_buf, GT911_REG_ID)
    /\ Goto(p, "product_id_write")
    /\ UNCHANGED <<session, op, bus, poll_locals, init_locals>>

product_id_write(p) ==
    /\ pc[p] = "product_id_write"
    /\ WriteTo(p, Slice(data_buf, 2), Goto(p, "product_id_read"))
    /\ UNCHANGED <<session, data_buf, op, poll_locals, init_locals>>

product_id_read(p) ==
    /\ pc[p] = "product_id_read"
    /\ ReadInto(p, 4, IdBlocks, "product_id_decode")
    /\ UNCHANGED <<session, op, poll_locals, init_locals>>

\* the four bytes reversed and decoded; init prints the text and goes on
product_id_decode(p) ==
    /\ pc[p] = "product_id_decode"
    /\ LET buf == <<data_buf[4], data_buf[3], data_buf[2], data_buf[1]>>
       IN  IF ~Utf8Valid(buf) THEN Raise(p, "UnicodeError")
           ELSE IF op[p] = "init" THEN Goto(p, "firmware_fill")
           ELSE Return(p, Text(buf))
    /\ UNCHANGED <<session, data_buf, op, bus, poll_locals, init_locals>>

\* -------------------------------------------------------------- firmware
firmware_fill(p) ==
    /\ pc[p] = "firmware_fill"
    /\ data_buf' = WithAddress(data_buf, GT911_REG_FW_VER)
    /\ Goto(p, "firmware_write")
    /\ UNCHANGED <<session, op, bus, poll_locals, init_locals>>

firmware_write(p) ==
    /\ pc[p] = "firmware_write"
    /\ WriteTo(p, Slice(data_buf, 2), Goto(p, "firmware_read"))
    /\ UNCHANGED <<session, data_buf, op, poll_locals, init_locals>>

firmware_read(p) ==
    /\ pc[p] = "firmware_read"
    /\ ReadInto(p, 2, FwBlocks, "firmware_return")
    /\ UNCHANGED <<session, op, poll_locals, init_locals>>

\* faulty variant: init goes on to the command without the configuration write
firmware_return_SkipConfig(p) ==
    /\ pc[p] = "firmware_return"
    /\ IF op[p] = "init" THEN Goto(p, "init_command")
       ELSE Return(p, Number(DecodeLE(data_buf[1], data_buf[2])))
    /\ UNCHANGED <<session, data_buf, op, bus, poll_locals, init_locals>>

\* return self.data_buf[1] << 8 | self.data_buf[0]; init prints it and goes on
firmware_return(p) ==
    /\ pc[p] = "firmware_return"
    /\ IF op[p] = "init" THEN Goto(p, "init_write_config")
       ELSE Return(p, Number(DecodeLE(data_buf[1], data_buf[2])))
    /\ UNCHANGED <<session, data_buf, op, bus, poll_locals, init_locals>>

\* -------------------------------------------------- set_command_register
\* faulty variant: the command byte is not stored before the write
command_fill_NoCode(p) ==
    /\ pc[p] = "command_fill"
    /\ data_buf' = WithAddress(data_buf, GT911_REG_COMMAND)
    /\ Goto(p, "command_write")
    /\ UNCHANGED <<session, op, bus, poll_locals, init_locals>>

command_fill(p) ==
    /\ pc[p] = "command_fill"
    /\ data_buf' = [WithAddress(data_buf, GT911_REG_COMMAND) EXCEPT ![3] = command[p]]
    /\ Goto(p, "command_write")
    /\ UNCHANGED <<session, op, bus, poll_locals, init_locals>>

command_write(p) ==
    /\ pc[p] = "command_write"
    /\ WriteTo(p, Slice(data_buf, 3), Return(p, NoTouch))
    /\ UNCHANGED <<session, data_buf, op, poll_locals, init_locals>>

\* ---------------------------------------------------------- status getter
status_fill(p) ==
    /\ pc[p] = "status_fill"
    /\ data_buf' = WithAddress(data_buf, GT911_READ_COORD_ADDR)
    /\ Goto(p, "status_write")
    /\ UNCHANGED <<session, op, bus, poll_locals, init_locals>>

status_write(p) ==
    /\ pc[p] = "status_write"
    /\ WriteTo(p, Slice(data_buf, 2), Goto(p, "status_read"))
    /\ UNCHANGED <<session, data_buf, op, poll_locals, init_locals>>

status_read(p) ==
    /\ pc[p] = "status_read"
    /\ ReadInto(p, 1, { <<s>> : s \in StatusBytes }, "get_coords_branch")
    /\ UNCHANGED <<session, op, poll_locals, init_locals>>

\* ------------------------------------------------------------ _get_coords
\* where _get_coords goes with the status byte s it has read
AfterStatus(s) ==
    IF ~DataReady(s) THEN "return"
    ELSE IF CoordNum(s) # 0 THEN "point_fill" ELSE "clear_fill"

\* status = self.status (the getter returns data_buf[0]) and the two tests
get_coords_branch(p) ==
    /\ pc[p] = "get_coords_branch"
    /\ LET s == data_buf[1] IN
        /\ status' = [status EXCEPT ![p] = s]
        /\ coord_num' = [coord_num EXCEPT ![p] = IF DataReady(s) THEN CoordNum(s) ELSE 0]
        /\ IF AfterStatus(s) = "return" THEN Return(p, NoTouch)
           ELSE Goto(p, AfterStatus(s))
    /\ UNCHANGED <<session, data_buf, op, bus, i, coord_x, coord_y, x, y, init_locals>>

\* the address of point block i into the scratch buffer
point_fill(p) ==
    /\ pc[p] = "point_fill"
    /\ data_buf' = WithAddress(data_buf, PointAddr(i[p]))
    /\ Goto(p, "point_write")
    /\ UNCHANGED <<session, op, bus, poll_locals, init_locals>>

point_write(p) ==
    /\ pc[p] = "point_write"
    /\ WriteTo(p, Slice(data_buf, 2), Goto(p, "point_read"))
    /\ UNCHANGED <<session, data_buf, op, poll_locals, init_locals>>

point_read(p) ==
    /\ pc[p] = "point_read"
    /\ ReadInto(p, 6, PointBlocks, "point_decode")
    /\ UNCHANGED <<session, op, poll_locals, init_locals>>

\* for i in range(coord_num): after the block with index k - 1
AfterPoint(k, n) == IF k < n THEN "point_fill" ELSE "average"

\* faulty variant: y is taken from the track id bytes of the block
point_decode_TrackBytes(p) ==
    /\ pc[p] = "point_decode"
    /\ LET px == DecodeLE(data_buf[1], data_buf[2])
           py == DecodeLE(data_buf[5], data_buf[6])
       IN  /\ x' = [x EXCEPT ![p] = px]
           /\ y' = [y EXCEPT ![p] = py]
           /\ coord_x' = [coord_x EXCEPT ![p] = Append(@, px)]
           /\ coord_y' = [coord_y EXCEPT ![p] = Append(@, py)]
    /\ i' = [i EXCEPT ![p] = @ + 1]
    /\ Goto(p, AfterPoint(i[p] + 1, coord_num[p]))
    /\ UNCHANGED <<session, data_buf, op, bus, status, coord_num, init_locals>>

\* x, y from the scratch buffer, appended to the lists
point_decode(p) ==
    /\ pc[p] = "point_decode"
    /\ LET px == DecodeLE(data_buf[1], data_buf[2])
           py == DecodeLE(data_buf[3], data_buf[4])
       IN  /\ x' = [x EXCEPT ![p] = px]
           /\ y' = [y EXCEPT ![p] = py]
           /\ coord_x' = [coord_x EXCEPT ![p] = Append(@, px)]
           /\ coord_y' = [coord_y EXCEPT ![p] = Append(@, py)]
    /\ i' = [i EXCEPT ![p] = @ + 1]
    /\ Goto(p, AfterPoint(i[p] + 1, coord_num[p]))
    /\ UNCHANGED <<session, data_buf, op, bus, status, coord_num, init_locals>>

\* faulty variant: the pair is returned without acknowledging the status
average_NoClear(p) ==
    /\ pc[p] = "average"
    /\ x' = [x EXCEPT ![p] = Mean(coord_x[p])]
    /\ y' = [y EXCEPT ![p] = Mean(coord_y[p])]
    /\ Return(p, Point(Mean(coord_x[p]), Mean(coord_y[p])))
    /\ UNCHANGED <<session, data_buf, op, bus, status, coord_num, i, coord_x, coord_y,
                   init_locals>>

\* x = int(sum(coord_x) / len(coord_x)), and y
average(p) ==
    /\ pc[p] = "average"
    /\ x' = [x EXCEPT ![p] = Mean(coord_x[p])]
    /\ y' = [y EXCEPT ![p] = Mean(coord_y[p])]
    /\ Goto(p, "clear_fill")
    /\ UNCHANGED <<session, data_buf, op, bus, status, coord_num, i, coord_x, coord_y,
                   init_locals>>

\* ---------------------------------------------------------- status setter
\* self.status = 0
clear_fill(p) ==
    /\ pc[p] = "clear_fill"
    /\ data_buf' = [WithAddress(data_buf, GT911_READ_COORD_ADDR) EXCEPT ![3] = 0]
    /\ Goto(p, "clear_write")
    /\ UNCHANGED <<session, op, bus, poll_locals, init_locals>>

\* the write, then return x, y (points were read) or fall off the end
clear_write(p) ==
    /\ pc[p] = "clear_write"
    /\ WriteTo(p, Slice(data_buf, 3),
               Return(p, IF coord_num[p] # 0 THEN Point(x[p], y[p]) ELSE NoTouch))
    /\ UNCHANGED <<session, data_buf, op, poll_locals, init_locals>>

\* ------------------------------------------------------------------- spec
Next ==
    \E p \in Callers :
        \/ call_init(p) \/ call_get_coords(p) \/ call_product_id(p)
        \/ call_firmware(p) \/ call_set_command_register(p)
        \/ take_result(p)
        \/ init_config(p) \/ init_write_config(p) \/ init_command(p)
        \/ product_id_fill(p) \/ product_id_write(p) \/ product_id_read(p)
        \/ product_id_decode(p)
        \/ firmware_fill(p) \/ firmware_write(p) \/ firmware_read(p)
        \/ firmware_return(p)
        \/ command_fill(p) \/ command_write(p)
        \/ status_fill(p) \/ status_write(p) \/ status_read(p)
        \/ get_coords_branch(p)
        \/ point_fill(p) \/ point_write(p) \/ point_read(p) \/ point_decode(p)
        \/ average(p)
        \/ clear_fill(p) \/ clear_write(p)

Spec == Init /\ [][Next]_vars

\* ------------------------------------------------ unserialized callers
\* Two threads call into one session with no lock around it, or one thread
\* does.  With two threads the run is kept small: they call _get_coords
\* and set_command_register (READ or CALIBRATE) only, no transaction fails,
\* and the controller reports one touch at the point (308, 632).
InitConc ==
    /\ width = 480 /\ height = 320
    /\ threads \in {1, 2}
    /\ Fresh

Confined ==
    threads = 2 =>
        \A p \in Callers :
            /\ op[p] \in {"", "_get_coords", "set_command_register"}
            /\ command[p] \in {GT911_CMD_READ, 4}
            /\ \A k \in DOMAIN bus[p] :
                   /\ bus[p][k].ok
                   /\ bus[p][k].kind = "read" =>
                          bus[p][k].data \in { <<129>>, <<52, 1, 120, 2, 0, 0>> }

NextConc == Next /\ Confined'

SpecConc == InitConc /\ [][NextConc]_vars

\* ------------------------------------------------- vocabulary of the claims
\* what a call has put on the bus, read off the transaction log alone
Running(p, m) == op[p] = m
Finished(p, m) == op[p] = m /\ pc[p] = "done"
Failed(p) == \E k \in DOMAIN bus[p] : ~bus[p][k].ok
IsByteSeq(d) == \A k \in DOMAIN d : d[k] \in 0..255

\* the register a write transaction addresses: its first two bytes, high first
Target(t) == t.data[1] * 256 + t.data[2]
AddressWrite(t, a) == t.kind = "write" /\ t.ok /\ t.data = <<a \div 256, a % 256>>
\* a write that carries payload to register a
RegisterWrite(t, a) == t.kind = "write" /\ t.n >= 3 /\ Target(t) = a
StatusClear(t) == t.kind = "write" /\ t.data = <<129, 78, 0>>
PointRead(t) == t.kind = "read" /\ t.n = 6
\* a write into the configuration area 0x8047..0x8100
ConfigWrite(t) == t.kind = "write" /\ t.n >= 3 /\ Target(t) \in 32839..33024
CommandWrite(t) == RegisterWrite(t, 32832)
Indexes(p, Test(_)) == { k \in DOMAIN bus[p] : Test(bus[p][k]) }

\* the status byte a _get_coords call has read, once its read has succeeded
StatusSeen(p) ==
    /\ Running(p, "_get_coords")
    /\ Len(bus[p]) >= 2
    /\ bus[p][2].kind = "read" /\ bus[p][2].ok
StatusByte(p) == bus[p][2].data[1]
Bit7(s) == s >= 128
Count(s) == s - 16 * (s \div 16)

\* C1: in the configuration init() sends, the 186 bytes after the two address
\* bytes carry the checksum as their 185th byte: the two's complement of the
\* byte sum of the 184 bytes before it, so that the first 185 bytes add up
\* to 0 modulo 256.
C1_ChecksumAt80FF ==
    \A p \in Callers : \A k \in DOMAIN bus[p] :
        (Running(p, "init") /\ ConfigWrite(bus[p][k])) =>
            LET blob == SubSeq(bus[p][k].data, 3, Len(bus[p][k].data))
            IN  /\ Len(blob) = 186
                /\ blob[185] = (256 - RangeSum(blob, 1, 184)) % 256
                /\ RangeSum(blob, 1, 185) = 0

\* C2: a _get_coords call that read a status byte with bit 7 clear has put
\* exactly the status address write and the 1-byte read on the bus, and
\* returns no touch.
C2_NotReadyNoTraffic ==
    \A p \in Callers :
        (StatusSeen(p) /\ ~Bit7(StatusByte(p))) =>
            /\ bus[p] = << Tx("write", <<129, 78>>, 2, TRUE),
                           Tx("read", <<StatusByte(p)>>, 1, TRUE) >>
            /\ pc[p] = "done" => result[p] = NoTouch
            /\ pc[p] \in {"get_coords_branch", "done"}

C2_Witness ==
    \E p \in Callers :
        /\ StatusSeen(p) /\ StatusByte(p) = 127
        /\ pc[p] = "done" /\ result[p] = NoTouch

\* C3: a _get_coords call that read a status byte with bit 7 set and count 0
\* reads no point block and ends with one status clear [0x81, 0x4E, 0x00] as
\* its third and last transaction, returning no touch when that write succeeds.
C3_ReadyZeroPoints ==
    \A p \in Callers :
        (StatusSeen(p) /\ Bit7(StatusByte(p)) /\ Count(StatusByte(p)) = 0) =>
            /\ Indexes(p, PointRead) = {}
            /\ Len(bus[p]) <= 3
            /\ Len(bus[p]) = 3 => StatusClear(bus[p][3])
            /\ pc[p] = "done" =>
                /\ Len(bus[p]) = 3
                /\ ~Failed(p) => result[p] = NoTouch

C3_Witness ==
    \E p \in Callers :
        /\ StatusSeen(p) /\ StatusByte(p) = 240
        /\ pc[p] = "done" /\ result[p] = NoTouch /\ Len(bus[p]) = 3

\* C4: with bit 7 set and count >= 1, no status clear is ever on the bus
\* before a point block read, and a call that ends without a failed
\* transaction has written 0 to the status register exactly once, as its
\* last transaction.
C4_ClearLastOnce ==
    \A p \in Callers :
        (StatusSeen(p) /\ Bit7(StatusByte(p)) /\ Count(StatusByte(p)) >= 1) =>
            /\ \A j \in Indexes(p, LAMBDA t : RegisterWrite(t, 33102)) :
                   \A k \in Indexes(p, PointRead) : k < j
            /\ (pc[p] = "done" /\ ~Failed(p)) =>
                /\ Indexes(p, LAMBDA t : RegisterWrite(t, 33102)) = {Len(bus[p])}
                /\ StatusClear(bus[p][Len(bus[p])])

C4_Witness ==
    \E p \in Callers :
        /\ StatusSeen(p) /\ StatusByte(p) = 128 + 3
        /\ pc[p] = "done" /\ ~Failed(p) /\ Len(bus[p]) = 9
        /\ StatusClear(bus[p][9])

\* C5: a _get_coords call in which a bus transaction failed has ended, and
\* ended with an error: neither no touch nor a coordinate pair.
C5_FailureIsError ==
    \A p \in Callers :
        (Running(p, "_get_coords") /\ Failed(p)) =>
            /\ pc[p] = "done"
            /\ result[p].kind = "error"
            /\ result[p] # NoTouch /\ result[p].kind # "point"

\* the status clear failed after two points had been read
C5_Witness ==
    \E p \in Callers :
        /\ StatusSeen(p) /\ StatusByte(p) = 128 + 2
        /\ Len(bus[p]) = 7 /\ bus[p][7].kind = "write" /\ ~bus[p][7].ok
        /\ pc[p] = "done" /\ result[p].kind = "error"

\* the x and y values of the point blocks a call has read, from the bytes
\* the bus delivered
BlocksRead(p) == SelectSeq(bus[p], LAMBDA t : PointRead(t) /\ t.ok)
XsRead(p) == [k \in DOMAIN BlocksRead(p) |->
                 BlocksRead(p)[k].data[1] + 256 * BlocksRead(p)[k].data[2]]
YsRead(p) == [k \in DOMAIN BlocksRead(p) |->
                 BlocksRead(p)[k].data[3] + 256 * BlocksRead(p)[k].data[4]]
Total(s) == Sum(s)
\* m is the floor of the mean of s, and lies within the values of s
FloorMeanOf(m, s) ==
    /\ m * Len(s) <= Total(s) /\ Total(s) < (m + 1) * Len(s)
    /\ \E k \in DOMAIN s : s[k] <= m
    /\ \E k \in DOMAIN s : m <= s[k]

\* C6: the pair _get_coords returns is, per axis, the floor of the mean of
\* the count values read in that call, and lies between their minimum and
\* maximum.
C6_FloorMean ==
    \A p \in Callers :
        (Finished(p, "_get_coords") /\ result[p].kind = "point") =>
            /\ Len(BlocksRead(p)) = Count(StatusByte(p))
            /\ Len(BlocksRead(p)) >= 1
            /\ FloorMeanOf(result[p].val[1], XsRead(p))
            /\ FloorMeanOf(result[p].val[2], YsRead(p))

\* (100,100), (100,100), (102,104): 302/3 and 304/3, truncated
C6_Witness ==
    \E p \in Callers :
        /\ Finished(p, "_get_coords")
        /\ XsRead(p) = <<100, 100, 102>> /\ YsRead(p) = <<100, 100, 104>>
        /\ result[p] = Point(100, 101)

\* C7: an init() on a panel whose width or height is 4096 or more puts
\* nothing on the bus and ends with an InvalidConfiguration error.
C7_OversizeRejected ==
    \A p \in Callers :
        (Running(p, "init") /\ (width >= 4096 \/ height >= 4096)) =>
            /\ bus[p] = <<>>
            /\ pc[p] = "done" => result[p] = Raised("InvalidConfiguration")

\* C8: init() writes into the configuration area at most once, and that
\* write is 188 bytes, starts with 0x80, 0x47 and ends with the refresh
\* flag 1; an init() that ends without error has made it.
C8_OneConfigWrite ==
    \A p \in Callers :
        Running(p, "init") =>
            /\ Cardinality(Indexes(p, ConfigWrite)) <= 1
            /\ \A k \in Indexes(p, ConfigWrite) :
                   /\ bus[p][k].n = 188 /\ Len(bus[p][k].data) = 188
                   /\ IsByteSeq(bus[p][k].data)
                   /\ bus[p][k].data[1] = 128 /\ bus[p][k].data[2] = 71
                   /\ bus[p][k].data[188] = 1
            /\ (pc[p] = "done" /\ result[p].kind # "error") =>
                   Cardinality(Indexes(p, ConfigWrite)) = 1

C8_Witness ==
    \E p \in Callers :
        /\ Finished(p, "init") /\ result[p].kind # "error"
        /\ width = 65535
        /\ Cardinality(Indexes(p, ConfigWrite)) = 1

\* a diagnostic query of init() failed: one of its four transactions, or
\* the decoding of the product id
DiagnosticsFailed(p) ==
    \/ \E k \in DOMAIN bus[p] : k <= 4 /\ ~bus[p][k].ok
    \/ result[p] = Raised("UnicodeError")

\* C9: an init() whose product id or firmware query failed still writes the
\* configuration and then issues the READ command.
C9_DiagnosticsNonFatal ==
    \A p \in Callers :
        (Finished(p, "init") /\ DiagnosticsFailed(p)) =>
            \E j, k \in DOMAIN bus[p] :
                /\ j < k
                /\ ConfigWrite(bus[p][j])
                /\ CommandWrite(bus[p][k]) /\ bus[p][k].data[3] = 0

\* C10: an init() without failure has put on the bus, in this order, the
\* product id address write and 4-byte read, the firmware address write and
\* 2-byte read, the configuration write and the command write [0x80,0x40,0];
\* a command write has a successful configuration write before it.
C10_InitOrder ==
    \A p \in Callers :
        Running(p, "init") =>
            /\ \A k \in Indexes(p, CommandWrite) :
                   \E j \in Indexes(p, ConfigWrite) : j < k /\ bus[p][j].ok
            /\ (pc[p] = "done" /\ result[p].kind # "error") =>
                /\ Len(bus[p]) = 6
                /\ AddressWrite(bus[p][1], 33088)
                /\ bus[p][2].kind = "read" /\ bus[p][2].n = 4 /\ bus[p][2].ok
                /\ AddressWrite(bus[p][3], 33092)
                /\ bus[p][4].kind = "read" /\ bus[p][4].n = 2 /\ bus[p][4].ok
                /\ ConfigWrite(bus[p][5]) /\ bus[p][5].n = 188 /\ bus[p][5].ok
                /\ bus[p][6] = Tx("write", <<128, 64, 0>>, 3, TRUE)
                /\ result[p] = NoTouch

C10_Witness ==
    \E p \in Callers :
        /\ Finished(p, "init") /\ result[p].kind # "error"
        /\ Len(bus[p]) = 6 /\ bus[p][6] = Tx("write", <<128, 64, 0>>, 3, TRUE)

\* C11: set_command_register(code), for every code 0..5, puts exactly one
\* transaction on the bus: the write of [0x80, 0x40, code] to address 0x5D.
C11_CommandWrite ==
    \A p \in Callers :
        Running(p, "set_command_register") =>
            /\ Len(bus[p]) <= 1
            /\ \A k \in DOMAIN bus[p] :
                   /\ bus[p][k].kind = "write" /\ bus[p][k].addr = 93
                   /\ bus[p][k].data = <<128, 64, command[p]>>
                   /\ bus[p][k].n = 3
            /\ pc[p] = "done" => Len(bus[p]) = 1
            /\ command[p] \in 0..5

\* CALIBRATE
C11_Witness ==
    \E p \in Callers :
        /\ Finished(p, "set_command_register")
        /\ bus[p] = << Tx("write", <<128, 64, 4>>, 3, TRUE) >>

\* C12: _get_coords reads at most 5 point blocks and addresses no point
\* register beyond POINT[4] at 0x8170, whatever bits 3:0 of the status hold.
C12_AtMostFivePoints ==
    \A p \in Callers :
        Running(p, "_get_coords") =>
            /\ Cardinality(Indexes(p, PointRead)) <= 5
            /\ \A k \in DOMAIN bus[p] :
                   (bus[p][k].kind = "write" /\ bus[p][k].n = 2) =>
                       Target(bus[p][k]) <= 33136
            /\ Len(coord_x[p]) <= 5

\* the bytes of a configuration write without its two address bytes:
\* offset 0 is register 0x8047
Blob(t) == SubSeq(t.data, 3, Len(t.data))

\* C13: the uploaded blob carries width low, width high, height low, height
\* high at blob offsets 3, 4, 5, 6.
C13_DimsAtBlob3to6 ==
    \A p \in Callers : \A k \in Indexes(p, ConfigWrite) :
        Running(p, "init") =>
            /\ Blob(bus[p][k])[3 + 1] = width % 256
            /\ Blob(bus[p][k])[4 + 1] = (width \div 256) % 256
            /\ Blob(bus[p][k])[5 + 1] = height % 256
            /\ Blob(bus[p][k])[6 + 1] = (height \div 256) % 256

\* C13, amended: the four bytes are at offsets 3..6 of the transaction, the
\* address bytes counted, which are blob offsets 1..4: registers
\* 0x8048..0x804B.
C13_DimsAtBlob1to4 ==
    \A p \in Callers : \A k \in Indexes(p, ConfigWrite) :
        Running(p, "init") =>
            /\ Blob(bus[p][k])[1 + 1] = width - 256 * (width \div 256)
            /\ Blob(bus[p][k])[2 + 1] = (width \div 256) - 256 * (width \div 65536)
            /\ Blob(bus[p][k])[3 + 1] = height - 256 * (height \div 256)
            /\ Blob(bus[p][k])[4 + 1] = (height \div 256) - 256 * (height \div 65536)
            /\ bus[p][k].data[3 + 1] = Blob(bus[p][k])[1 + 1]
            /\ bus[p][k].data[6 + 1] = Blob(bus[p][k])[4 + 1]

\* 480 x 320: 0xE0 0x01 0x40 0x01
C13_Witness ==
    \E p \in Callers : \E k \in Indexes(p, ConfigWrite) :
        /\ Running(p, "init") /\ width = 480 /\ height = 320
        /\ SubSeq(Blob(bus[p][k]), 2, 5) = <<224, 1, 64, 1>>

\* the k-th point block read of a call, counted from 0, is at index 2k + 4
\* of its log, its address write at 2k + 3
\* C16: with bit 7 set and count >= 1, the log after the status read is, for
\* i = 0 .. count-1 in this order, the 2-byte write of the address
\* 0x8150 + 8i, high byte first, directly followed by one 6-byte read; a call
\* without failure has 2 + 2*count + 1 transactions.
C16_PointBlocksInOrder ==
    \A p \in Callers :
        (StatusSeen(p) /\ Bit7(StatusByte(p)) /\ Count(StatusByte(p)) >= 1) =>
            /\ \A k \in 3..Len(bus[p]) :
                   LET blk == (k - 3) \div 2
                   IN  IF blk >= Count(StatusByte(p))
                       THEN k = 3 + 2 * Count(StatusByte(p)) /\ StatusClear(bus[p][k])
                       ELSE IF k = 3 + 2 * blk
                       THEN /\ bus[p][k].kind = "write"
                            /\ bus[p][k].data =
                                 << (33104 + 8 * blk) \div 256, (33104 + 8 * blk) % 256 >>
                       ELSE bus[p][k].kind = "read" /\ bus[p][k].n = 6
            /\ \A k \in 1..(Len(bus[p]) - 1) : bus[p][k].ok
            /\ (pc[p] = "done" /\ ~Failed(p)) =>
                   Len(bus[p]) = 2 + 2 * Count(StatusByte(p)) + 1

\* three points: blocks at 0x8150, 0x8158, 0x8160, nine transactions
C16_Witness ==
    \E p \in Callers :
        /\ StatusSeen(p) /\ StatusByte(p) = 128 + 3
        /\ pc[p] = "done" /\ ~Failed(p) /\ Len(bus[p]) = 9
        /\ bus[p][7].data = <<129, 96>> /\ PointRead(bus[p][8])

\* the register a read of a call is meant for: by the method, and within
\* _get_coords by how many point blocks were read before it
PointReadsBefore(p, k) == Cardinality({ j \in 1..(k - 1) : PointRead(bus[p][j]) })
RegisterRead(p, k) ==
    IF bus[p][k].n = 4 THEN 33088
    ELSE IF bus[p][k].n = 2 THEN 33092
    ELSE IF bus[p][k].n = 1 THEN 33102
    ELSE 33104 + 8 * PointReadsBefore(p, k)

\* C17: every read on the bus has, directly before it in the log of its
\* call, the successful 2-byte write of (addr >> 8, addr & 0xFF) of the
\* register it reads.
C17_ReadAfterItsAddress ==
    \A p \in Callers : \A k \in DOMAIN bus[p] :
        bus[p][k].kind = "read" =>
            /\ k > 1
            /\ AddressWrite(bus[p][k - 1], RegisterRead(p, k))
            /\ bus[p][k].n = 4 => op[p] \in {"product_id", "init"}
            /\ bus[p][k].n = 2 => op[p] \in {"firmware", "init"}
            /\ bus[p][k].n \in {1, 6} => op[p] = "_get_coords"

\* the second point block, read after the first read overwrote the buffer
C17_Witness ==
    \E p \in Callers :
        /\ Running(p, "_get_coords") /\ Len(bus[p]) >= 6
        /\ PointRead(bus[p][4]) /\ bus[p][4].ok
        /\ AddressWrite(bus[p][5], 33112)
        /\ PointRead(bus[p][6]) /\ bus[p][6].ok

\* offsets, within the transaction, of the bytes that may differ between
\* panels: width and height (3..6) and register 0x80FF (186)
PanelOffsets == {3, 4, 5, 6, 186}

\* C18: every byte of the uploaded configuration other than the four width
\* and height bytes and the byte of register 0x80FF is the same for all
\* panels: the byte the literal has for a 0 x 0 panel.
C18_OnlyDimsAndChecksumVary ==
    \A p \in Callers : \A k \in Indexes(p, ConfigWrite) :
        Running(p, "init") =>
            \A j \in 0..187 :
                j \notin PanelOffsets =>
                    bus[p][k].data[j + 1] = ConfigTemplate(0, 0)[j + 1]

\* C19: every point a call has decoded is x = b0 | (b1 << 8), y = b2 | (b3 << 8)
\* of the block its own read delivered, whatever b4 and b5 are, and lies in
\* 0..65535.
C19_DecodeOwnBlock ==
    \A p \in Callers :
        Running(p, "_get_coords") =>
            /\ Len(coord_x[p]) = Len(coord_y[p])
            /\ Len(coord_x[p]) <= Len(BlocksRead(p))
            /\ Len(BlocksRead(p)) <= Len(coord_x[p]) + 1
            /\ \A k \in DOMAIN coord_x[p] :
                   /\ coord_x[p][k] = XsRead(p)[k] /\ coord_y[p][k] = YsRead(p)[k]
                   /\ coord_x[p][k] \in 0..65535 /\ coord_y[p][k] \in 0..65535

\* [0x34,0x01,0x78,0x02,0,0] gives (308, 632); the next block has b4 = 1
C19_Witness ==
    \E p \in Callers :
        /\ Running(p, "_get_coords")
        /\ Len(BlocksRead(p)) = 2
        /\ BlocksRead(p)[1].data = <<52, 1, 120, 2, 0, 0>>
        /\ BlocksRead(p)[2].data = <<102, 0, 104, 0, 1, 0>>
        /\ coord_x[p] = <<308, 102>> /\ coord_y[p] = <<632, 104>>

\* a transaction of the point loop: an address write or a block read after
\* the status read
PointLoopTx(p, k) ==
    /\ k >= 3
    /\ \/ bus[p][k].kind = "write" /\ bus[p][k].n = 2
       \/ PointRead(bus[p][k])

\* C20: when a point address write or a point read fails, it is the last
\* transaction of the call: the call has ended with the error, nothing was
\* retried and no write to the status register was made.
C20_NothingAfterFailure ==
    \A p \in Callers : \A k \in DOMAIN bus[p] :
        (Running(p, "_get_coords") /\ PointLoopTx(p, k) /\ ~bus[p][k].ok) =>
            /\ k = Len(bus[p])
            /\ pc[p] = "done" /\ result[p].kind = "error"
            /\ Indexes(p, LAMBDA t : RegisterWrite(t, 33102)) = {}

\* the read of the second block failed
C20_Witness ==
    \E p \in Callers :
        /\ Running(p, "_get_coords") /\ Len(bus[p]) = 6
        /\ PointRead(bus[p][6]) /\ ~bus[p][6].ok
        /\ pc[p] = "done"

\* C15: the configuration transaction of an init() is byte for byte the one
\* an earlier init() of the session sent, whatever calls ran in between and
\* whatever they left in the scratch buffer.
C15_SameConfigAgain ==
    \A p \in Callers : \A k \in Indexes(p, ConfigWrite) :
        (Running(p, "init") /\ uploaded # <<>>) =>
            /\ bus[p][k].data = uploaded
            /\ Len(uploaded) = 188

\* a second init(), run with the track id of a polled point still in the
\* scratch buffer
C15_Witness ==
    \E p \in Callers : \E k \in Indexes(p, ConfigWrite) :
        /\ Running(p, "init") /\ uploaded # <<>>
        /\ bus[p][k].ok /\ bus[p][k].data = uploaded
        /\ data_buf[5] = 1

\* the bytes a call means to send with the write at index k of its log
IntendedBytes(p, k) ==
    IF op[p] = "set_command_register" THEN <<128, 64, command[p]>>
    ELSE IF bus[p][k].n = 3 THEN <<129, 78, 0>>
    ELSE IF k = 1 THEN <<129, 78>>
    ELSE << (33104 + 8 * PointReadsBefore(p, k)) \div 256,
            (33104 + 8 * PointReadsBefore(p, k)) % 256 >>

\* a call has sent bytes it did not mean to send
ForeignBytesSent(p) ==
    \E k \in DOMAIN bus[p] :
        bus[p][k].kind = "write" /\ bus[p][k].data # IntendedBytes(p, k)

\* a call has decoded a point from bytes its own read did not deliver
ForeignPointDecoded(p) ==
    \/ Len(coord_x[p]) > Len(BlocksRead(p))
    \/ \E k \in DOMAIN coord_x[p] :
           k <= Len(BlocksRead(p)) /\
           (coord_x[p][k] # XsRead(p)[k] \/ coord_y[p][k] # YsRead(p)[k])

Corrupted(p) ==
    /\ op[p] \in {"_get_coords", "set_command_register"}
    /\ ForeignBytesSent(p) \/ ForeignPointDecoded(p)

\* C14: a _get_coords or set_command_register call that sent bytes other
\* than its register address or command, or decoded a point from another
\* call's bytes, exists only when two threads use the session unserialized:
\* with one caller at a time no such state is reachable.
C14_CorruptionNeedsInterleaving ==
    \A p \in Callers : Corrupted(p) => threads = 2

\* two threads: one call has sent bytes meant for another register, and a
\* poll has decoded a point from bytes its own read did not deliver
C14_Witness ==
    /\ threads = 2
    /\ \E p \in Callers : ForeignBytesSent(p) /\ Corrupted(p)
    /\ \E p \in Callers : op[p] = "_get_coords" /\ ForeignPointDecoded(p)
====
